---- MODULE Spec2Model ----
(***************************************************************************)
(* Ingestion pipeline of BlobIndexTrigger: text extraction, chunking into  *)
(* token-bounded sections, embedding with retry, document assembly and     *)
(* upload to the search index.                                             *)
(*                                                                         *)
(* Strings are sequences of one-character strings, byte contents are       *)
(* sequences of byte values.  An index document id "<name>-page-<i>" is    *)
(* the pair <<name, i>>: the decimal suffix holds no "-", so the formatted *)
(* string determines both parts.                                           *)
(***************************************************************************)
EXTENDS Integers, Sequences, FiniteSets, TLC

(***************************************************************************)
(* Bounds of the model.                                                    *)
(***************************************************************************)
\* longest text handed to split_text in SplitSpec
MaxLen == 5
\* longest blob content of a pipeline run
MaxContentLen == 4
\* small values of the TextSplitter(max_tokens) parameter, next to its default
MaxTokens == 2

(***************************************************************************)
(* Program constants.                                                      *)
(***************************************************************************)
\* TextSplitter.__init__: max_tokens: int = 2000
DefaultMaxTokens == 2000
\* OpenAIEmbeddings.__init__: self.max_tokens = 8000
EmbeddingMaxTokens == 8000
\* @retry(stop=stop_after_attempt(3), ...)
StopAfterAttempt == 3

(***************************************************************************)
(* Characters and strings.                                                 *)
(***************************************************************************)
\* characters matched by \s
Whitespace == {" ", "\n"}

\* characters of the class [.!?] of the sentence boundary
Terminators == {".", "!", "?"}

\* characters of the texts of SplitSpec
Chars == {"a", ".", "?", " ", "\n"}

SeqsUpTo(S, n) == UNION {[1..k -> S] : k \in 0..n}

Texts == SeqsUpTo(Chars, MaxLen)

MaxTokensChoices == (1..MaxTokens) \cup {DefaultMaxTokens}

RECURSIVE LStrip(_)
\* str.strip(), left side
LStrip(s) ==
    IF s # <<>> /\ Head(s) \in Whitespace THEN LStrip(Tail(s)) ELSE s

RECURSIVE RStrip(_)
\* str.strip(), right side
RStrip(s) ==
    IF s # <<>> /\ s[Len(s)] \in Whitespace
    THEN RStrip(SubSeq(s, 1, Len(s) - 1))
    ELSE s

\* str.strip()
Strip(s) == RStrip(LStrip(s))

RECURSIVE CollapseWs(_)
\* re.sub(r'\s+', ' ', text): every maximal whitespace run becomes one space
CollapseWs(s) ==
    IF s = <<>> THEN <<>>
    ELSE IF Head(s) \in Whitespace
         THEN <<" ">> \o CollapseWs(LStrip(s))
         ELSE <<Head(s)>> \o CollapseWs(Tail(s))

\* text = re.sub(r'\s+', ' ', text).strip()
Normalize(text) == Strip(CollapseWs(text))

RECURSIVE SplitFrom(_, _, _)
\* re.split(r'(?<=[.!?])\s+', text), scanning from position i with the
\* piece cur collected so far: a whitespace run that follows a terminator
\* ends the piece and is dropped; the last piece is kept even when empty
SplitFrom(s, i, cur) ==
    IF i > Len(s) THEN <<cur>>
    ELSE IF s[i] \in Whitespace /\ i > 1 /\ s[i - 1] \in Terminators
         THEN LET rest == LStrip(SubSeq(s, i, Len(s)))
              IN  <<cur>> \o SplitFrom(rest, 1, <<>>)
         ELSE SplitFrom(s, i + 1, Append(cur, s[i]))

\* sentences = re.split(r'(?<=[.!?])\s+', text)
SplitSentences(text) == SplitFrom(text, 1, <<>>)

RECURSIVE Words(_)
\* str.split(): the maximal runs of non-whitespace characters
Words(s) ==
    LET t == LStrip(s)
        n == IF \E k \in 1..Len(t) : t[k] \in Whitespace
             THEN (CHOOSE k \in 1..Len(t) :
                      /\ t[k] \in Whitespace
                      /\ \A j \in 1..(k - 1) : t[j] \notin Whitespace) - 1
             ELSE Len(t)
    IN  IF t = <<>> THEN <<>>
        ELSE <<SubSeq(t, 1, n)>> \o Words(SubSeq(t, n + 1, Len(t)))

\* len(text.split())
WordCount(s) == Len(Words(s))

RECURSIVE Join(_)
\* ' '.join(parts)
Join(parts) ==
    IF parts = <<>> THEN <<>>
    ELSE IF Len(parts) = 1 THEN parts[1]
         ELSE parts[1] \o <<" ">> \o Join(Tail(parts))

(***************************************************************************)
(* TextSplitter.split_text                                                 *)
(***************************************************************************)
\* SplitPage(text=..., page_num=...)
SplitPage(t, n) == [text |-> t, page_num |-> n]

\* the test without the length of the sentence about to be added
ExceedsLimitMut(current_length, sentence_length, limit) ==
    current_length > limit

\* the test that also closes a section the sentence would fill exactly
ExceedsLimitGe(current_length, sentence_length, limit) ==
    current_length + sentence_length >= limit

\* if current_length + sentence_length > self.max_tokens:
ExceedsLimit(current_length, sentence_length, limit) ==
    current_length + sentence_length > limit

\* the counter left where it is
NextSectionNumberMut(section_number) == section_number

\* section_number += 1
NextSectionNumber(section_number) == section_number + 1

\* the test of current_section left out
HasSentencesMut(current_section) == TRUE

\* if current_section: (a list is true when it has an element)
HasSentences(current_section) == current_section # <<>>

\* sections.append(SplitPage(text=' '.join(current_section), page_num=section_number))
CloseSection(st) ==
    [sections        |-> Append(st.sections,
                                SplitPage(Join(st.current_section), st.section_number)),
     current_section |-> st.current_section,
     current_length  |-> st.current_length,
     section_number  |-> st.section_number]

\* one iteration of "for sentence in sentences"
SplitStep(st, sentence, limit) ==
    LET sentence_length == WordCount(sentence)
        closing == /\ ExceedsLimit(st.current_length, sentence_length, limit)
                   /\ HasSentences(st.current_section)
        s1 == IF closing
              THEN [CloseSection(st) EXCEPT
                        !.section_number = NextSectionNumber(st.section_number),
                        !.current_section = <<>>,
                        !.current_length = 0]
              ELSE st
    IN  [s1 EXCEPT !.current_section = Append(s1.current_section, sentence),
                   !.current_length = s1.current_length + sentence_length]

\* the last section forgotten
FinalSectionsMut(st) == st.sections

\* "Don't forget the last section": if current_section: sections.append(...)
FinalSections(st) ==
    IF HasSentences(st.current_section)
    THEN CloseSection(st).sections
    ELSE st.sections

RECURSIVE SplitLoop(_, _, _, _)
SplitLoop(sentences, k, st, limit) ==
    IF k > Len(sentences) THEN st
    ELSE SplitLoop(sentences, k + 1, SplitStep(st, sentences[k], limit), limit)

\* TextSplitter(max_tokens=limit).split_text(text)
split_text(text, limit) ==
    LET sentences == SplitSentences(Normalize(text))
        st0 == [sections |-> <<>>, current_section |-> <<>>,
                current_length |-> 0, section_number |-> 0]
        st == SplitLoop(sentences, 1, st0, limit)
    IN  FinalSections(st)

(***************************************************************************)
(* File, text extraction, embedding input, index documents.                *)
(***************************************************************************)
\* the runs (invocations of process_file_and_update_index) of the model
Runs == {1, 2}

\* blob names
Names == {<<"a">>, <<"a", ".", "b">>, <<"a", "/", "b">>, <<"a", "_", "b">>}

\* blob names with a PDF suffix
PdfNames == {<<"a", ".", "p", "d", "f">>, <<"b", "/", "a", ".", "P", "D", "F">>}

\* declared media types
ContentTypes == {"text/plain", "application/pdf"}

\* byte values of the blob contents: "a", ".", " "
ContentBytes == {97, 46, 32}

Contents == SeqsUpTo(ContentBytes, MaxContentLen)

\* blob contents of the concurrent runs: empty, "a", ". a"
TwoContents == {<<>>, <<97>>, <<46, 32, 97>>}

\* the character of one byte (ASCII, and Latin-1 for 255)
Chr(b) ==
    CASE b = 97 -> "a"
      [] b = 46 -> "."
      [] b = 63 -> "?"
      [] b = 32 -> " "
      [] b = 10 -> "\n"
      [] OTHER  -> "y"

\* content.decode('utf-8'), on UnicodeDecodeError content.decode('latin-1'):
\* over single bytes both give one character per byte
Decode(content) == [k \in 1..Len(content) |-> Chr(content[k])]

\* File.filename_to_id: self.name.replace('/', '_').replace('.', '_')
filename_to_id(name) ==
    [k \in 1..Len(name) |-> IF name[k] \in {"/", "."} THEN "_" ELSE name[k]]

\* str.lower() of one character
LowerChar(c) ==
    CASE c = "P" -> "p"
      [] c = "D" -> "d"
      [] c = "F" -> "f"
      [] OTHER  -> c

\* str.lower()
Lower(s) == [k \in 1..Len(s) |-> LowerChar(s[k])]

\* str.rfind(c), counted from 1, 0 when c does not occur
LastIndexOf(s, c) ==
    IF \E k \in 1..Len(s) : s[k] = c
    THEN CHOOSE k \in 1..Len(s) :
             /\ s[k] = c
             /\ \A j \in (k + 1)..Len(s) : s[j] # c
    ELSE 0

\* os.path.basename(filename)
Basename(p) == SubSeq(p, LastIndexOf(p, "/") + 1, Len(p))

\* os.path.splitext(filename)[1]: from the last dot of the last path
\* component on, unless only dots precede it in that component
SplitExt(p) ==
    LET sep == LastIndexOf(p, "/")
        dot == LastIndexOf(p, ".")
    IN  IF dot > sep /\ \E j \in (sep + 1)..(dot - 1) : p[j] # "."
        THEN SubSeq(p, dot, Len(p))
        ELSE <<>>

\* if os.path.splitext(filename)[1].lower() == ".pdf":
HasPdfAnchor(filename) ==
    Lower(SplitExt(filename)) = <<".", "p", "d", "f">>

\* sourcepage_from_file_page(filename, page): "<basename>#page=<page+1>" is
\* the pair <<basename, page + 1>>, "<basename>" the tuple <<basename>>
sourcepage_from_file_page(filename, page) ==
    IF HasPdfAnchor(filename)
    THEN <<Basename(filename), page + 1>>
    ELSE <<Basename(filename)>>

\* file.name.lower().endswith('.pdf')
EndsWithPdf(name) ==
    /\ Len(name) >= 4
    /\ SubSeq(name, Len(name) - 3, Len(name)) \in
           {<<".", x, y, z>> : x \in {"p", "P"}, y \in {"d", "D"}, z \in {"f", "F"}}

\* file.content_type.lower() == 'application/pdf' or file.name.lower().endswith('.pdf')
IsPdf(ctype, name) == ctype = "application/pdf" \/ EndsWithPdf(name)

\* the page texts PdfReader extracts from a readable document: PyPDF2 is
\* outside the repository; a readable document is one page holding the
\* decoded characters
PdfPages(content) == <<Decode(content)>>

RECURSIVE PdfText(_)
\* for page in pdf_reader.pages: text += page.extract_text() + "\n\n"
PdfText(pages) ==
    IF pages = <<>> THEN <<>>
    ELSE Head(pages) \o <<"\n", "\n">> \o PdfText(Tail(pages))

\* TextSplitter.extract_text, when it does not raise
extract_text(content, ctype, name) ==
    IF IsPdf(ctype, name)
    THEN Strip(PdfText(PdfPages(content)))
    ELSE Strip(Decode(content))

\* if not blob_content or len(blob_content) == 0:
NoContent(content) == content = <<>>

\* the empty-text test left out
NoTextMut(text) == FALSE

\* if not text:
NoText(text) == text = <<>>

\* the slice that keeps one word more
TruncateTextMut(text, limit) ==
    IF WordCount(text) > limit
    THEN Join(SubSeq(Words(text), 1, limit + 1))
    ELSE text

\* create_embeddings: words = text.split()[:self.max_tokens]; ' '.join(words)
TruncateText(text, limit) ==
    IF WordCount(text) > limit
    THEN Join(SubSeq(Words(text), 1, limit))
    ELSE text

\* response.data[0].embedding of one remote call: the vector of the
\* submitted text, tagged with the attempt that obtained it
Embedding(text, attempt) == [of |-> text, att |-> attempt]

\* one attempt too many
ShouldStopMut(attempt) == attempt > StopAfterAttempt

\* stop=stop_after_attempt(3): no further attempt after this one
ShouldStop(attempt) == attempt >= StopAfterAttempt

\* the list of an earlier attempt kept
FreshEmbeddingsMut(embeddings) == embeddings

\* "embeddings = []" at the start of every attempt of create_embeddings
FreshEmbeddings(embeddings) == <<>>

\* the texts taken from the last to the first
TextIndexMut(i, n) == n - i

\* "for i, text in enumerate(texts)": the position, counted from 1, of the
\* text of the iteration that follows i finished ones
TextIndex(i, n) == i + 1

\* "return embeddings" inside the loop body
LoopFinishedMut(i, n) == i >= 1

\* "for i, text in enumerate(texts)" is exhausted: return embeddings
LoopFinished(i, n) == i >= n

\* the page index counted on across the attempts of the run
DocumentIdMut(name, i, attempt) == <<filename_to_id(name), i + attempt - 1>>

\* the page index of the id counted from 1
DocumentIdFromOne(name, i, attempt) == <<filename_to_id(name), i + 1>>

\* f"{section.content.filename_to_id()}-page-{i}", i counted from 0
DocumentId(name, i, attempt) == <<filename_to_id(name), i>>

\* documents = [{...} for i, (section, embedding) in enumerate(zip(sections, embeddings))]
Documents(name, sections, embeddings, attempt) ==
    LET n == IF Len(sections) < Len(embeddings) THEN Len(sections) ELSE Len(embeddings)
    IN  [k \in 1..n |->
            [id         |-> DocumentId(name, k - 1, attempt),
             content    |-> sections[k].text,
             embedding  |-> embeddings[k],
             sourcefile |-> name,
             sourcepage |-> sourcepage_from_file_page(name, sections[k].page_num),
             page       |-> sections[k].page_num]]

\* the exception of the run swallowed by the handler
MainOutcomeMut(pc) ==
    IF pc \in {"Failed", "Skipped", "Uploaded"} THEN "returned" ELSE "running"

\* how the invocation of main stands when process_file_and_update_index is
\* at pc: both functions log and re-raise every exception ("except
\* Exception ... raise"), and main returns after the function returned
MainOutcome(pc) ==
    IF pc = "Failed" THEN "raised"
    ELSE IF pc \in {"Skipped", "Uploaded"} THEN "returned"
    ELSE "running"

\* the ids of a batch
BatchIds(documents) == {documents[k].id : k \in 1..Len(documents)}

\* an upload that leaves only the batch in the index
UploadDocumentsOnly(idx, documents) ==
    [id \in BatchIds(documents) |->
        LET k == CHOOSE j \in 1..Len(documents) : documents[j].id = id
        IN  documents[k]]

\* search_client.upload_documents(documents): every document replaces the
\* index entry of its id
UploadDocuments(idx, documents) ==
    [id \in DOMAIN idx \cup BatchIds(documents) |->
        IF id \in BatchIds(documents)
        THEN LET k == CHOOSE j \in 1..Len(documents) :
                          /\ documents[j].id = id
                          /\ \A m \in (j + 1)..Len(documents) : documents[m].id # id
             IN  documents[k]
        ELSE idx[id]]

(***************************************************************************)
(* State.                                                                  *)
(***************************************************************************)
(***************************************************************************)
(* main: the event and the blob it names.                                  *)
(***************************************************************************)
\* event.event_type
EventTypes == {"Microsoft.Storage.BlobCreated", "Microsoft.Storage.BlobDeleted"}

\* event_data.get('url', ''): the url without "https://", split at '/';
\* the blob path is given one character per part
Urls ==
    {<<"">>,
     <<"acct">>,
     <<"acct", "other", "a">>,
     <<"acct", "evidencefiles">>,
     <<"acct", "evidencefiles", "a">>,
     <<"acct", "evidencefiles", "a", "b">>}

\* event_data.get('contentLength', 0)
ContentLengths == {0, 1}

\* event_data.get('contentType', 'application/octet-stream')
EventContentTypes == {"", "text/plain", "application/pdf"}

Events ==
    [event_type : EventTypes, url : Urls, contentLength : ContentLengths,
     contentType : EventContentTypes]

\* no event received yet
NoEvent == [event_type |-> "none", url |-> <<"">>, contentLength |-> 0,
            contentType |-> ""]

\* the handler without the test of contentLength
IgnoredEventMut(ev) ==
    \/ ev.event_type # "Microsoft.Storage.BlobCreated"
    \/ ev.url = <<"">>

\* main: the three early returns before get_blob_content
IgnoredEvent(ev) ==
    \/ ev.event_type # "Microsoft.Storage.BlobCreated"
    \/ ev.url = <<"">>
    \/ ev.contentLength = 0

\* get_blob_content: the position of the first part "evidencefiles", 0 if
\* there is none
ContainerIndex(parts) ==
    IF \E i \in 1..Len(parts) : parts[i] = "evidencefiles"
    THEN CHOOSE i \in 1..Len(parts) :
             /\ parts[i] = "evidencefiles"
             /\ \A j \in 1..(i - 1) : parts[j] # "evidencefiles"
    ELSE 0

\* '/'.join(parts)
RECURSIVE JoinSlash(_)
JoinSlash(parts) ==
    IF parts = <<>> THEN <<>>
    ELSE IF Len(parts) = 1 THEN <<parts[1]>>
    ELSE <<parts[1], "/">> \o JoinSlash(Tail(parts))

\* blob_name = '/'.join(parts[i+1:])
BlobName(parts) ==
    LET i == ContainerIndex(parts)
    IN  IF i = 0 THEN <<>> ELSE JoinSlash(SubSeq(parts, i + 1, Len(parts)))

\* get_blob_content raises ValueError: fewer than two parts, no container
\* or no blob name
InvalidUrl(parts) ==
    \/ Len(parts) < 2
    \/ ContainerIndex(parts) = 0
    \/ BlobName(parts) = <<>>

\* content_type = event_content_type or content_type
EffectiveContentType(event_content_type, content_type) ==
    IF event_content_type # "" THEN event_content_type ELSE content_type

(***************************************************************************)
(* The HTTP endpoints: BlobUpload, UploadHtmlBody and the two search        *)
(* functions.                                                              *)
(***************************************************************************)
Requests == {1, 2}

Endpoints == {"BlobUpload", "UploadHtmlBody", "html_search", "pdf_search"}

\* the field a request must carry: the url and body of UploadHtmlBody, the
\* search_text of the search functions
RequestTexts == {"", "q"}

\* the file_name header of a BlobUpload request, <<>> when it is missing
FileNames == {<<>>, <<"q">>, <<"q", ".", "t">>}

\* the file_type header of a BlobUpload request, <<>> when it is missing
FileTypes == {<<>>, <<"t">>, <<".", "t">>, <<"q">>}

\* no request received yet
NoRequest == [stage |-> "none", endpoint |-> "", text |-> "",
              file_name |-> <<>>, file_type |-> <<>>,
              status |-> 0, body |-> <<>>]

\* the handler met no exception of its environment; the text of a message
\* is the sequence of its parts
NoException == [type |-> "none", text |-> <<>>]

\* os.environ['AzureWebJobsStorage'] is unset, or a call of the blob
\* service fails: type(e).__name__ and str(e)
StorageExceptions ==
    {[type |-> "KeyError", text |-> <<"'AzureWebJobsStorage'">>],
     [type |-> "HttpResponseError", text |-> <<"service unavailable">>]}

\* azure-html-search: one of the three os.environ[...] is unset, or a call
\* of the search service fails
HtmlSearchExceptions ==
    {[type |-> "KeyError", text |-> <<"'SEARCH_SERVICE_ENDPOINT'">>],
     [type |-> "KeyError", text |-> <<"'SEARCH_SERVICE_API_KEY'">>],
     [type |-> "KeyError", text |-> <<"'SEARCH_INDEX_NAME'">>],
     [type |-> "HttpResponseError", text |-> <<"service unavailable">>]}

\* 'Yes' if value else 'No'
YesNo(present) == IF present THEN "Yes" ELSE "No"

\* azure-pdf-search: the configurations for which
\* "not all([search_endpoint, search_key]) or not index_list" holds;
\* names is len(index_list)
MissingConfigs ==
    {c \in [endpoint : BOOLEAN, key : BOOLEAN, names : {0, 1}] :
        ~c.endpoint \/ ~c.key \/ c.names = 0}

\* raise ValueError(f"Missing required environment variables.
\* SEARCH_ENDPOINT: .., SEARCH_KEY: .., Valid Index Names: ..")
PdfSearchExceptions ==
    {[type |-> "ValueError",
      text |-> <<"Missing required environment variables.",
                 YesNo(c.endpoint), YesNo(c.key), c.names>>] :
        c \in MissingConfigs}

\* what the environment of a handler can make it raise
Exceptions(endpoint) ==
    IF endpoint \in {"BlobUpload", "UploadHtmlBody"} THEN StorageExceptions
    ELSE IF endpoint = "html_search" THEN HtmlSearchExceptions
    ELSE PdfSearchExceptions

\* file_name.endswith(file_type)
EndsWith(file_name, file_type) ==
    /\ Len(file_name) >= Len(file_type)
    /\ SubSeq(file_name, Len(file_name) - Len(file_type) + 1, Len(file_name))
           = file_type

\* BlobUpload validate_request: the message of the first check that
\* fails, <<>> when the request is valid
validate_request(file_name, file_type) ==
    IF file_name = <<>> THEN <<"file_name is required in headers">>
    ELSE IF file_type = <<>> THEN <<"file_type is required in headers">>
    ELSE LET ft == IF file_type[1] = "." THEN file_type
                   ELSE <<".">> \o file_type
         IN  IF ~EndsWith(file_name, ft)
             THEN <<"file_name must end with the specified file_type: ", ft>>
             ELSE <<>>

\* BlobUpload main: 400 from validate_request, 202, or the except clause
\* with its fixed message; a JSON object is the sequence of its key/value
\* pairs
BlobUploadMain(file_name, file_type, e) ==
    LET error_message == validate_request(file_name, file_type)
    IN  IF error_message # <<>>
        THEN [status |-> 400, body |-> <<<<"error", error_message>>>>]
        ELSE IF e = NoException
        THEN [status |-> 202, body |-> <<<<"message", "uploaded">>>>]
        ELSE [status |-> 500,
              body |-> <<<<"error", <<"An error occurred while uploading file. Please contact the administrator.">>>>>>]

\* UploadHtmlBody main: 400 without url or body, 202, or the except clause
\* with json.dumps({"error": str(e)})
UploadHtmlBodyMain(text, e) ==
    IF text = ""
    THEN [status |-> 400,
          body |-> <<<<"error", <<"Both 'url' and 'body' are required in form-data">>>>>>]
    ELSE IF e = NoException
    THEN [status |-> 202, body |-> <<<<"message", "uploaded">>>>]
    ELSE [status |-> 500, body |-> <<<<"error", e.text>>>>]

\* azure-html-search search_function: no validation (an empty search_text
\* asks for the total count), 200, or the except clause with str(e),
\* type(e).__name__, the search_text and the filter string (None for a
\* request without filters)
HtmlSearchFunction(text, e) ==
    IF e = NoException
    THEN [status |-> 200, body |-> <<<<"results", text>>>>]
    ELSE [status |-> 500,
          body |-> <<<<"error", e.text>>, <<"type", e.type>>,
                     <<"search_text", text>>, <<"filter_string", "null">>>>]

\* search_single_index(...) at line 92 of azure-pdf-search: the file
\* neither defines nor imports the name
UndefinedName ==
    [type |-> "NameError", text |-> <<"name 'search_single_index' is not defined">>]

\* azure-pdf-search search_function: 400 without search_text; with the
\* configuration complete the call of the undefined search_single_index
\* raises NameError; 400 for ValueError and IndexError, and the last
\* except clause with str(e)
PdfSearchFunction(text, e) ==
    IF text = ""
    THEN [status |-> 400, body |-> <<<<"error", <<"search_text is required">>>>>>]
    ELSE LET raised == IF e = NoException THEN UndefinedName ELSE e
         IN  IF raised.type = "ValueError"
             THEN [status |-> 400, body |-> <<<<"error", raised.text>>>>]
             ELSE IF raised.type = "IndexError"
             THEN [status |-> 400,
                   body |-> <<<<"error", <<"No valid index names found in configuration">>>>>>]
             ELSE [status |-> 500, body |-> <<<<"error", raised.text>>>>]

\* the response of the endpoint to request req during which the
\* environment raises e
Respond(endpoint, req, e) ==
    IF endpoint = "BlobUpload"
    THEN BlobUploadMain(req.file_name, req.file_type, e)
    ELSE IF endpoint = "UploadHtmlBody" THEN UploadHtmlBodyMain(req.text, e)
    ELSE IF endpoint = "html_search" THEN HtmlSearchFunction(req.text, e)
    ELSE PdfSearchFunction(req.text, e)

VARIABLES
    max_tokens,   \* TextSplitter.max_tokens
    in_text,      \* argument of a direct call of split_text
    out_sections, \* its result
    split_pc,     \* "call" before the call, "return" after it
    run,          \* the locals of each run of process_file_and_update_index
    index,        \* the search index: id -> document
    emb_max_tokens, \* OpenAIEmbeddings.max_tokens
    submitted,    \* the inputs a direct call of create_embeddings submits
    http          \* the requests to the HTTP endpoints and their responses

vars == <<max_tokens, in_text, out_sections, split_pc, run, index,
          emb_max_tokens, submitted, http>>

\* a run before its trigger
IdleRun ==
    [pc |-> "Idle", error |-> "none",
     file_name |-> <<>>, blob_content |-> <<>>, content_type |-> "",
     text |-> <<>>, sections |-> <<>>,
     attempt |-> 0, i |-> 0, embeddings |-> <<>>, documents |-> <<>>,
     calls |-> <<>>, fails |-> <<>>, uploads |-> 0,
     issued |-> <<>>, order |-> 0, invocation |-> "none",
     event |-> NoEvent, gets |-> 0, pending |-> <<>>]

\* the index with no entry
EmptyIndex == [id \in {} |-> 0]

(***************************************************************************)
(* split_text called directly on a bounded text.                           *)
(***************************************************************************)
SplitInit ==
    /\ max_tokens \in MaxTokensChoices
    /\ in_text \in Texts
    /\ out_sections = <<>>
    /\ split_pc = "call"
    /\ run = [r \in Runs |-> IdleRun]
    /\ index = EmptyIndex
    /\ emb_max_tokens = EmbeddingMaxTokens
    /\ submitted = <<>>
    /\ http = [q \in Requests |-> NoRequest]

SplitText ==
    /\ split_pc = "call"
    /\ out_sections' = split_text(in_text, max_tokens)
    /\ split_pc' = "return"
    /\ UNCHANGED <<max_tokens, in_text, run, index, emb_max_tokens, submitted,
                   http>>

SplitNext == SplitText

SplitSpec == SplitInit /\ [][SplitNext]_vars

\* the texts of the returned sections, in list order
SectionTexts(sections) == [k \in 1..Len(sections) |-> sections[k].text]

\* C6: for every non-empty text split_text returns k >= 1 sections whose
\* page_num are exactly 0, 1, ..., k-1 in list order
C6_SequenceNumbers ==
    (split_pc = "return" /\ in_text # <<>>) =>
        /\ Len(out_sections) >= 1
        /\ \A k \in 1..Len(out_sections) : out_sections[k].page_num = k - 1

\* a text that was split into three sections
C6_Witness ==
    /\ split_pc = "return"
    /\ in_text # <<>>
    /\ Len(out_sections) >= 3

\* C7: for every non-empty text, the section texts joined with single
\* spaces in list order are the whitespace-normalized input text
C7_Reconstructs ==
    (split_pc = "return" /\ in_text # <<>>) =>
        Join(SectionTexts(out_sections)) = Normalize(in_text)

\* a text whose whitespace had to be normalized and that was split in two
C7_Witness ==
    /\ split_pc = "return"
    /\ Normalize(in_text) # in_text
    /\ Len(out_sections) >= 2

\* C8: every returned section has at most max_tokens words or is one single
\* sentence that alone has more; a section of two or more sentences never
\* exceeds max_tokens
C8_TokenBudget ==
    split_pc = "return" =>
        \A k \in 1..Len(out_sections) :
            \/ WordCount(out_sections[k].text) <= max_tokens
            \/ Len(SplitSentences(out_sections[k].text)) = 1

\* a single oversized sentence emitted as a section of its own after
\* another section was closed
C8_Witness ==
    /\ split_pc = "return"
    /\ Len(out_sections) >= 2
    /\ \E k \in 1..Len(out_sections) :
          /\ WordCount(out_sections[k].text) > max_tokens
          /\ Len(SplitSentences(out_sections[k].text)) = 1

\* C9: split_text never emits a section with empty text, and returns no
\* section for an empty or whitespace-only text
C9_NoEmptySection ==
    split_pc = "return" =>
        /\ \A k \in 1..Len(out_sections) : out_sections[k].text # <<>>
        /\ Normalize(in_text) = <<>> => out_sections = <<>>

RECURSIVE SentenceRuns(_, _)
\* texts are the sentences cut into consecutive runs of one or more whole
\* sentences, each run joined with single spaces
SentenceRuns(sentences, texts) ==
    IF texts = <<>> THEN sentences = <<>>
    ELSE \E n \in 1..Len(sentences) :
            /\ texts[1] = Join(SubSeq(sentences, 1, n))
            /\ SentenceRuns(SubSeq(sentences, n + 1, Len(sentences)),
                            Tail(texts))

\* C21: for a text of at least two sentences with more than max_tokens
\* words in total, split_text returns at least two sections, the sections
\* are consecutive runs of whole sentences of the text, and page_num
\* strictly increases along the list
C21_LongTextSplits ==
    LET sentences == SplitSentences(Normalize(in_text))
    IN  (/\ split_pc = "return"
         /\ Len(sentences) >= 2
         /\ WordCount(Normalize(in_text)) > max_tokens) =>
            /\ Len(out_sections) >= 2
            /\ SentenceRuns(sentences, SectionTexts(out_sections))
            /\ \A k \in 1..(Len(out_sections) - 1) :
                  out_sections[k].page_num < out_sections[k + 1].page_num

\* three sentences over the limit, two of them kept together in a section
C21_Witness ==
    /\ split_pc = "return"
    /\ Len(SplitSentences(Normalize(in_text))) = 3
    /\ WordCount(Normalize(in_text)) > max_tokens
    /\ Len(out_sections) = 2
    /\ \E k \in 1..Len(out_sections) :
          Len(SplitSentences(out_sections[k].text)) = 2

(***************************************************************************)
(* create_embeddings called directly on one bounded text: the text it      *)
(* submits to the remote service.                                          *)
(***************************************************************************)
EmbMaxTokensChoices == (1..MaxTokens) \cup {EmbeddingMaxTokens}

TruncInit ==
    /\ max_tokens = DefaultMaxTokens
    /\ in_text \in Texts
    /\ out_sections = <<>>
    /\ split_pc = "unused"
    /\ run = [r \in Runs |-> IdleRun]
    /\ index = EmptyIndex
    /\ emb_max_tokens \in EmbMaxTokensChoices
    /\ submitted = <<>>
    /\ http = [q \in Requests |-> NoRequest]

\* the loop body of create_embeddings up to client.embeddings.create(input=text)
Submit ==
    /\ submitted = <<>>
    /\ submitted' = <<TruncateText(in_text, emb_max_tokens)>>
    /\ UNCHANGED <<max_tokens, in_text, out_sections, split_pc, run, index,
                   emb_max_tokens, http>>

TruncNext == Submit

TruncSpec == TruncInit /\ [][TruncNext]_vars

\* C18: the text submitted to the remote embedding service has at most
\* emb_max_tokens (8000) whitespace-delimited words: a text with more
\* words is submitted as its first emb_max_tokens words joined by single
\* spaces, a text with at most emb_max_tokens words is submitted unchanged
C18_SubmittedWithinLimit ==
    submitted # <<>> =>
        LET t == submitted[1]
        IN  /\ WordCount(t) <= emb_max_tokens
            /\ WordCount(in_text) > emb_max_tokens =>
                   /\ Words(t) = SubSeq(Words(in_text), 1, emb_max_tokens)
                   /\ t = Join(Words(t))
            /\ WordCount(in_text) <= emb_max_tokens => t = in_text

\* a text of three words cut to its first two
C18_Witness ==
    /\ submitted # <<>>
    /\ emb_max_tokens = 2
    /\ WordCount(in_text) = 3
    /\ WordCount(submitted[1]) = 2

(***************************************************************************)
(* The runs of the pipeline.                                               *)
(***************************************************************************)
Init ==
    /\ max_tokens \in MaxTokensChoices
    /\ in_text = <<>>
    /\ out_sections = <<>>
    /\ split_pc = "unused"
    /\ run = [r \in Runs |-> IdleRun]
    /\ index = EmptyIndex
    /\ emb_max_tokens = EmbeddingMaxTokens
    /\ submitted = <<>>
    /\ http = [q \in Requests |-> NoRequest]

Unused ==
    UNCHANGED <<max_tokens, in_text, out_sections, split_pc, emb_max_tokens,
                submitted, http>>

\* main calls process_file_and_update_index(blob_content, content_type, file_name, ...)
ReceiveFrom(r, names, contents) ==
    /\ run[r].pc = "Idle"
    /\ run[r].invocation \in {"none", "running"}
    /\ \E name \in names, content \in contents, ctype \in ContentTypes :
          run' = [run EXCEPT ![r] = [@ EXCEPT !.pc = "Received",
                                              !.invocation = "running",
                                              !.file_name = name,
                                              !.blob_content = content,
                                              !.content_type = ctype]]
    /\ UNCHANGED index
    /\ Unused

\* the empty-content return, else extract_text and the empty-text return
Extract(r) ==
    /\ run[r].pc = "Received"
    /\ LET c == run[r].blob_content
           t == extract_text(c, run[r].content_type, run[r].file_name)
           next == IF NoText(t) THEN "Skipped" ELSE "Extracted"
       IN  IF NoContent(c)
           THEN run' = [run EXCEPT ![r] = [@ EXCEPT
                           !.pc = "Skipped",
                           !.invocation = MainOutcome("Skipped")]]
           ELSE run' = [run EXCEPT ![r] = [@ EXCEPT
                           !.text = t,
                           !.pc = next,
                           !.invocation = MainOutcome(next)]]
    /\ UNCHANGED index
    /\ Unused

\* PdfReader cannot read the bytes: extract_text logs and re-raises
ExtractFail(r) ==
    /\ run[r].pc = "Received"
    /\ ~NoContent(run[r].blob_content)
    /\ IsPdf(run[r].content_type, run[r].file_name)
    /\ run' = [run EXCEPT ![r] = [@ EXCEPT !.pc = "Failed",
                                           !.error = "extraction",
                                           !.invocation = MainOutcome("Failed")]]
    /\ UNCHANGED index
    /\ Unused

\* split_pages = text_splitter.split_text(text); sections = [Section(...)]
Chunk(r) ==
    /\ run[r].pc = "Extracted"
    /\ LET s == split_text(run[r].text, max_tokens)
       IN  run' = [run EXCEPT ![r] = [@ EXCEPT
                      !.sections = s,
                      !.calls = [k \in 1..Len(s) |-> 0],
                      !.fails = [k \in 1..Len(s) |-> 0],
                      !.pc = "Chunked"]]
    /\ UNCHANGED index
    /\ Unused

\* the first attempt of embeddings_service.create_embeddings(texts)
StartEmbedding(r) ==
    /\ run[r].pc = "Chunked"
    /\ run' = [run EXCEPT ![r] = [@ EXCEPT
                  !.attempt = 1,
                  !.i = 0,
                  !.issued = <<>>,
                  !.embeddings = FreshEmbeddings(@),
                  !.pc = IF LoopFinished(0, Len(run[r].sections))
                         THEN "Embedded" ELSE "Embedding"]]
    /\ UNCHANGED index
    /\ Unused

\* the loop body up to "await client.embeddings.create(input=text, ...)":
\* the text is truncated, the request for texts[i] is sent and the
\* coroutine is suspended until the answer
EmbedSend(r) ==
    /\ run[r].pc = "Embedding"
    /\ run[r].i < Len(run[r].sections)
    /\ LET k == TextIndex(run[r].i, Len(run[r].sections))
           text == TruncateText(run[r].sections[k].text, emb_max_tokens)
       IN  run' = [run EXCEPT ![r] = [@ EXCEPT
                      !.pending = <<text>>,
                      !.calls = [@ EXCEPT ![k] = @ + 1],
                      !.issued = Append(@, k),
                      !.pc = "Awaiting"]]
    /\ UNCHANGED index
    /\ Unused

\* the awaited call returns: embeddings.append(response.data[0].embedding)
\* and the next iteration, or "return embeddings" after the last
EmbedOk(r) ==
    /\ run[r].pc = "Awaiting"
    /\ run' = [run EXCEPT ![r] = [@ EXCEPT
                  !.embeddings = Append(@, Embedding(run[r].pending[1],
                                                     run[r].attempt)),
                  !.pending = <<>>,
                  !.i = @ + 1,
                  !.pc = IF LoopFinished(run[r].i + 1, Len(run[r].sections))
                         THEN "Embedded" ELSE "Embedding"]]
    /\ UNCHANGED index
    /\ Unused

\* the awaited call raises: create_embeddings re-raises, and the retry
\* decorator gives up after the last attempt or sleeps before the next,
\* the locals of the failed attempt still as they were
EmbedFail(r) ==
    /\ run[r].pc = "Awaiting"
    /\ LET k == TextIndex(run[r].i, Len(run[r].sections))
       IN  IF ShouldStop(run[r].attempt)
           THEN run' = [run EXCEPT ![r] = [@ EXCEPT
                           !.pending = <<>>,
                           !.fails = [@ EXCEPT ![k] = @ + 1],
                           !.pc = "Failed",
                           !.error = "embedding",
                           !.invocation = MainOutcome("Failed")]]
           ELSE run' = [run EXCEPT ![r] = [@ EXCEPT
                           !.pending = <<>>,
                           !.fails = [@ EXCEPT ![k] = @ + 1],
                           !.pc = "Waiting"]]
    /\ UNCHANGED index
    /\ Unused

\* the wait of the retry decorator is over: the next attempt of
\* create_embeddings starts with a new client and "embeddings = []"
Retry(r) ==
    /\ run[r].pc = "Waiting"
    /\ run' = [run EXCEPT ![r] = [@ EXCEPT
                  !.attempt = @ + 1,
                  !.i = 0,
                  !.issued = <<>>,
                  !.embeddings = FreshEmbeddings(@),
                  !.pc = "Embedding"]]
    /\ UNCHANGED index
    /\ Unused

\* documents = [...]
Assemble(r) ==
    /\ run[r].pc = "Embedded"
    /\ run' = [run EXCEPT ![r] = [@ EXCEPT
                  !.documents = Documents(run[r].file_name, run[r].sections,
                                          run[r].embeddings, run[r].attempt),
                  !.pc = "Assembled"]]
    /\ UNCHANGED index
    /\ Unused

\* search_client.upload_documents(documents) returns
UploadOk(r) ==
    /\ run[r].pc = "Assembled"
    /\ index' = UploadDocuments(index, run[r].documents)
    /\ run' = [run EXCEPT ![r] = [@ EXCEPT
                  !.uploads = @ + 1,
                  !.order = 1 + Cardinality({q \in Runs : run[q].pc = "Uploaded"}),
                  !.pc = "Uploaded",
                  !.invocation = MainOutcome("Uploaded")]]
    /\ Unused

\* search_client.upload_documents(documents) raises: logged and re-raised
UploadFail(r) ==
    /\ run[r].pc = "Assembled"
    /\ run' = [run EXCEPT ![r] = [@ EXCEPT !.uploads = @ + 1,
                                           !.pc = "Failed",
                                           !.error = "upload",
                                           !.invocation = MainOutcome("Failed")]]
    /\ UNCHANGED index
    /\ Unused

\* one run, on any bounded content
Receive(r) == ReceiveFrom(r, Names \cup PdfNames, Contents)

\* one of two concurrent runs
TwoReceive(r) == ReceiveFrom(r, Names, TwoContents)

Next ==
    \E r \in {1} :
        \/ Receive(r)
        \/ Extract(r)
        \/ ExtractFail(r)
        \/ Chunk(r)
        \/ StartEmbedding(r)
        \/ EmbedSend(r)
        \/ EmbedOk(r)
        \/ EmbedFail(r)
        \/ Retry(r)
        \/ Assemble(r)
        \/ UploadOk(r)
        \/ UploadFail(r)

Spec == Init /\ [][Next]_vars

RECURSIVE SumSeq(_)
SumSeq(q) == IF q = <<>> THEN 0 ELSE Head(q) + SumSeq(Tail(q))

\* C1: the retry budget is per section: no section's remote call is issued
\* more than 3 times, and a run aborts with an embedding error only after
\* the remote call of one single section has failed 3 times.  The retry
\* wraps the whole create_embeddings loop, so three failures spread over
\* different sections abort the run and this does not hold of the code.
C1_PerSectionBudget ==
    \A r \in Runs :
        /\ \A k \in 1..Len(run[r].calls) : run[r].calls[k] <= StopAfterAttempt
        /\ run[r].error = "embedding" =>
               \E k \in 1..Len(run[r].fails) : run[r].fails[k] = StopAfterAttempt

\* C2: upload_documents is called only after embedding returned exactly one
\* vector per section, with a batch of as many documents; a run whose
\* embedding stage failed builds no batch and never calls upload_documents,
\* and every index entry comes from an uploaded batch
C2_UploadOnlyComplete ==
    /\ \A r \in Runs :
          /\ run[r].uploads > 0 =>
                 /\ run[r].error # "embedding"
                 /\ Len(run[r].embeddings) = Len(run[r].sections)
                 /\ Len(run[r].documents) = Len(run[r].sections)
          /\ run[r].error = "embedding" =>
                 /\ run[r].uploads = 0
                 /\ run[r].documents = <<>>
    /\ \A id \in DOMAIN index :
          \E r \in Runs :
              /\ run[r].pc = "Uploaded"
              /\ id \in BatchIds(run[r].documents)

\* an upload of two sections after a failed attempt
C2_Witness ==
    \E r \in Runs :
        /\ run[r].pc = "Uploaded"
        /\ Len(run[r].sections) >= 2
        /\ run[r].attempt >= 2

\* C3: when the first two attempts failed and the third succeeded, the
\* batch has one document per section, document i carrying the text of
\* section i and the vector obtained for section i in the third attempt,
\* and that batch is what the index holds after the upload
C3_ThirdAttemptBatch ==
    \A r \in Runs :
        (run[r].attempt = StopAfterAttempt /\ run[r].pc \in {"Assembled", "Uploaded"}) =>
            /\ Len(run[r].documents) = Len(run[r].sections)
            /\ \A k \in 1..Len(run[r].documents) :
                  /\ run[r].documents[k].content = run[r].sections[k].text
                  /\ run[r].documents[k].embedding =
                         Embedding(TruncateText(run[r].sections[k].text,
                                                emb_max_tokens),
                                   StopAfterAttempt)
                  /\ run[r].pc = "Uploaded" =>
                         /\ run[r].documents[k].id \in DOMAIN index
                         /\ index[run[r].documents[k].id] = run[r].documents[k]

\* an upload in the third attempt, after an attempt that failed at the
\* second section with the vector of the first already obtained
C3_Witness ==
    \E r \in Runs :
        /\ run[r].pc = "Uploaded"
        /\ run[r].attempt = StopAfterAttempt
        /\ Len(run[r].sections) >= 2
        /\ run[r].fails[2] >= 1

\* a run that has ended its extraction with no content or no text
C10_Empty(r) ==
    /\ run[r].pc \notin {"Idle", "Received"}
    /\ run[r].error # "extraction"
    /\ \/ NoContent(run[r].blob_content)
       \/ extract_text(run[r].blob_content, run[r].content_type,
                       run[r].file_name) = <<>>

\* C10: a run whose content is empty or whose extracted text is empty ends
\* Skipped with no error, no remote embedding call and no upload_documents
\* call, and the step that ends it leaves the index unchanged
C10_EmptyIsSkipped ==
    /\ [](\A r \in Runs :
             C10_Empty(r) =>
                 /\ run[r].pc = "Skipped"
                 /\ run[r].error = "none"
                 /\ run[r].attempt = 0
                 /\ SumSeq(run[r].calls) = 0
                 /\ run[r].uploads = 0)
    /\ [][\A r \in Runs :
             (run[r].pc = "Received" /\ C10_Empty(r)') => index' = index]_vars

\* a run skipped on content that is not empty but holds no text
C10_Witness ==
    \E r \in Runs :
        /\ run[r].pc = "Skipped"
        /\ ~NoContent(run[r].blob_content)

\* the run has built its batch of index documents
Built(r) == run[r].pc \in {"Assembled", "Uploaded"} \/ run[r].error = "upload"

\* C11: every index document of a PDF-typed document (by the test of
\* extract_text: declared type application/pdf or a name ending in .pdf)
\* has the sourcepage "<basename>#page=<page_num+1>", every index document
\* of another document the sourcepage "<basename>"
C11_Sourcepage ==
    \A r \in Runs :
        Built(r) =>
            \A k \in 1..Len(run[r].documents) :
                run[r].documents[k].sourcepage =
                    IF IsPdf(run[r].content_type, run[r].file_name)
                    THEN <<Basename(run[r].file_name), run[r].sections[k].page_num + 1>>
                    ELSE <<Basename(run[r].file_name)>>

\* C12: in every batch the index of a document's id is the page_num of
\* the section whose text the document carries, and the page anchor of its
\* sourcepage, where there is one, is that page_num plus one
C12_IdIsPageNum ==
    \A r \in Runs :
        Built(r) =>
            /\ Len(run[r].documents) = Len(run[r].sections)
            /\ \A k \in 1..Len(run[r].documents) :
                  LET d == run[r].documents[k]
                  IN  /\ d.id = <<filename_to_id(run[r].file_name),
                                   run[r].sections[k].page_num>>
                      /\ d.content = run[r].sections[k].text
                      /\ Len(d.sourcepage) = 2 =>
                             d.sourcepage[2] = d.id[2] + 1

\* a batch of two documents with page anchors
C12_Witness ==
    \E r \in Runs :
        /\ Built(r)
        /\ Len(run[r].documents) >= 2
        /\ Len(run[r].documents[2].sourcepage) = 2

\* C13: a run calls upload_documents at most once, with one document per
\* section; when the call fails the run and the invocation of main fail,
\* the index is left as it was, and the run takes no further step (no
\* retry, no further embedding or upload call)
C13_UploadOnceFatal ==
    /\ [](\A r \in Runs :
             /\ run[r].uploads <= 1
             /\ run[r].uploads = 1 =>
                    /\ Len(run[r].sections) >= 1
                    /\ Len(run[r].documents) = Len(run[r].sections)
             /\ run[r].error = "upload" =>
                    /\ run[r].pc = "Failed"
                    /\ run[r].invocation = "raised"
                    /\ run[r].uploads = 1)
    /\ [][\A r \in Runs :
             /\ run[r].error = "upload" => run'[r] = run[r]
             /\ run'[r].error = "upload" /\ run[r].error # "upload" =>
                    index' = index]_vars

\* a failed upload of a batch of two documents
C13_Witness ==
    \E r \in Runs :
        /\ run[r].error = "upload"
        /\ Len(run[r].documents) = 2

\* the stages in their order; an ended run is past every stage
StageRank(pc) ==
    CASE pc = "Idle"      -> 0
      [] pc = "Received"  -> 1
      [] pc = "Extracted" -> 2
      [] pc = "Chunked"   -> 3
      [] pc \in {"Embedding", "Awaiting", "Waiting"} -> 4
      [] pc = "Embedded"  -> 5
      [] pc = "Assembled" -> 6
      [] pc = "Uploaded"  -> 7
      [] OTHER            -> 8

\* C14: a run never steps back to an earlier stage; a remote embedding
\* call is issued only when chunking has produced the complete section
\* list, and upload_documents is called only when a vector has been
\* obtained for every section
C14_StageOrder ==
    /\ [][\A r \in Runs : StageRank(run'[r].pc) >= StageRank(run[r].pc)]_vars
    /\ [](\A r \in Runs :
             /\ SumSeq(run[r].calls) > 0 =>
                    /\ StageRank(run[r].pc) >= 4
                    /\ run[r].sections = split_text(run[r].text, max_tokens)
             /\ run[r].uploads > 0 =>
                    /\ StageRank(run[r].pc) >= 7
                    /\ Len(run[r].embeddings) = Len(run[r].sections)
                    /\ \A k \in 1..Len(run[r].sections) :
                          run[r].embeddings[k].of =
                              TruncateText(run[r].sections[k].text,
                                           emb_max_tokens))

\* a run that went through every stage, with two failed attempts on the way
C14_Witness ==
    \E r \in Runs :
        /\ run[r].pc = "Uploaded"
        /\ Len(run[r].sections) >= 2
        /\ SumSeq(run[r].fails) = 2

\* a plain-text document with text whose words fit in one section, once
\* its text has been extracted
SmallPlain(r) ==
    /\ run[r].pc \notin {"Idle", "Received"}
    /\ ~IsPdf(run[r].content_type, run[r].file_name)
    /\ run[r].text # <<>>
    /\ WordCount(Normalize(run[r].text)) <= max_tokens

\* what C20 says of a small plain-text document apart from the id: one
\* section numbered 0 holding the normalized text, and, when the run has
\* uploaded, one successful remote call, one upload of one document
OneOfEach(r) ==
    /\ run[r].pc # "Skipped"
    /\ run[r].pc # "Extracted" =>
           run[r].sections = <<SplitPage(Normalize(run[r].text), 0)>>
    /\ run[r].pc = "Uploaded" =>
           /\ Len(run[r].calls) = 1
           /\ run[r].calls[1] - run[r].fails[1] = 1
           /\ run[r].uploads = 1
           /\ Len(run[r].documents) = 1
           /\ DOMAIN index = {run[r].documents[1].id}
           /\ index[run[r].documents[1].id] = run[r].documents[1]

\* C20 as stated: the one document has the id "<name>-page-0" built from
\* the name of the document as it is
C20_IdFromName ==
    \A r \in Runs :
        SmallPlain(r) =>
            /\ OneOfEach(r)
            /\ run[r].pc = "Uploaded" =>
                   run[r].documents[1].id = <<run[r].file_name, 0>>

\* C20: a plain-text document with non-empty text of at most max_tokens
\* words yields exactly one section numbered 0 and, when the embedding
\* service and the index accept the calls, exactly one successful remote
\* embedding call and exactly one uploaded document, whose id is
\* "<normalized name>-page-0"
C20_OneSectionOneDocument ==
    \A r \in Runs :
        SmallPlain(r) =>
            /\ OneOfEach(r)
            /\ run[r].pc = "Uploaded" =>
                   run[r].documents[1].id =
                       <<filename_to_id(run[r].file_name), 0>>

\* an uploaded plain-text document of two sentences that fill max_tokens
\* exactly, under a name that normalization changes
C20_Witness ==
    \E r \in Runs :
        /\ SmallPlain(r)
        /\ run[r].pc = "Uploaded"
        /\ WordCount(run[r].text) = max_tokens
        /\ Len(SplitSentences(Normalize(run[r].text))) = 2
        /\ filename_to_id(run[r].file_name) # run[r].file_name

\* the positions 1..n in order
UpTo(n) == [k \in 1..n |-> k]

\* C17: within an attempt the remote calls are issued for the sections in
\* input order, each after the one before it has returned its vector; an
\* attempt that meets no failure has issued exactly one call per section
\* and returns the list whose vector i was computed from section i
C17_OneCallPerSection ==
    \A r \in Runs :
        /\ run[r].pc = "Embedding" =>
               /\ run[r].issued = UpTo(Len(run[r].issued))
               /\ Len(run[r].embeddings) = Len(run[r].issued)
               /\ run[r].pending = <<>>
        /\ run[r].pc = "Awaiting" =>
               /\ run[r].issued = UpTo(Len(run[r].embeddings) + 1)
               /\ run[r].pending =
                      <<TruncateText(run[r].sections[Len(run[r].issued)].text,
                                     emb_max_tokens)>>
        /\ run[r].pc \in {"Embedded", "Assembled", "Uploaded"} =>
               /\ run[r].issued = UpTo(Len(run[r].sections))
               /\ Len(run[r].embeddings) = Len(run[r].sections)
               /\ \A k \in 1..Len(run[r].sections) :
                     run[r].embeddings[k] =
                         Embedding(TruncateText(run[r].sections[k].text,
                                                emb_max_tokens),
                                   run[r].attempt)

\* a first attempt over two sections that met no failure
C17_Witness ==
    \E r \in Runs :
        /\ run[r].pc = "Embedded"
        /\ run[r].attempt = 1
        /\ Len(run[r].sections) >= 2

\* one run, on one of a few contents
FairNext ==
    \E r \in {1} :
        \/ TwoReceive(r)
        \/ Extract(r)
        \/ ExtractFail(r)
        \/ Chunk(r)
        \/ StartEmbedding(r)
        \/ EmbedSend(r)
        \/ EmbedOk(r)
        \/ EmbedFail(r)
        \/ Retry(r)
        \/ Assemble(r)
        \/ UploadOk(r)
        \/ UploadFail(r)

\* the steps of the run other than the call of split_text
FairSteps ==
    \E r \in {1} :
        \/ TwoReceive(r)
        \/ Extract(r)
        \/ ExtractFail(r)
        \/ StartEmbedding(r)
        \/ EmbedSend(r)
        \/ EmbedOk(r)
        \/ EmbedFail(r)
        \/ Retry(r)
        \/ Assemble(r)
        \/ UploadOk(r)
        \/ UploadFail(r)

\* the run is scheduled until it ends: the function is awaited to its end
\* and every remote call returns or raises. Chunk is enabled exactly when
\* the run is at "Extracted" and always leaves it, so its weak fairness is
\* that the run is not at "Extracted" forever
FairSpec ==
    /\ Init
    /\ [][FairNext]_vars
    /\ WF_vars(FairSteps)
    /\ \A r \in {1} : []<>(run[r].pc # "Extracted")

\* the outcomes of a run
Terminal(r) == run[r].pc \in {"Uploaded", "Skipped", "Failed"}

\* C22: every run of process_file_and_update_index ends Uploaded, Skipped
\* or Failed whatever calls of the embedding service fail; the embedding
\* stage is attempted at most 3 times and a run with n sections issues at
\* most 3 * n remote embedding calls
C22_Terminates ==
    /\ \A r \in Runs : (run[r].pc = "Received") ~> Terminal(r)
    /\ [](\A r \in Runs :
             /\ run[r].attempt <= StopAfterAttempt
             /\ SumSeq(run[r].calls) <=
                    StopAfterAttempt * Len(run[r].sections))

\* a run of two sections ended by the third failed attempt, each attempt
\* having failed at the last section
C22_Witness ==
    \E r \in Runs :
        /\ run[r].error = "embedding"
        /\ Len(run[r].sections) = 2
        /\ SumSeq(run[r].calls) = StopAfterAttempt * 2

\* two invocations of the function running concurrently against one index
TwoNext ==
    \E r \in Runs :
        \/ TwoReceive(r)
        \/ Extract(r)
        \/ ExtractFail(r)
        \/ Chunk(r)
        \/ StartEmbedding(r)
        \/ EmbedSend(r)
        \/ EmbedOk(r)
        \/ EmbedFail(r)
        \/ Retry(r)
        \/ Assemble(r)
        \/ UploadOk(r)
        \/ UploadFail(r)

TwoSpec == Init /\ [][TwoNext]_vars

\* the run has uploaded its batch
Uploaded(r) == run[r].pc = "Uploaded"

\* the index entries of one normalized name
IdsOfName(name) == {id \in DOMAIN index : id[1] = filename_to_id(name)}

\* C4: two runs on the same bytes, media type and name upload the same set
\* of ids, so the index holds one entry per section for that name
C4_SameIds ==
    \A r, q \in Runs :
        (/\ r # q
         /\ Uploaded(r) /\ Uploaded(q)
         /\ run[r].file_name = run[q].file_name
         /\ run[r].blob_content = run[q].blob_content
         /\ run[r].content_type = run[q].content_type) =>
            /\ BatchIds(run[r].documents) = BatchIds(run[q].documents)
            /\ IdsOfName(run[r].file_name) = BatchIds(run[r].documents)
            /\ Cardinality(IdsOfName(run[r].file_name)) = Len(run[r].sections)

\* the same two-section document uploaded twice, after different numbers
\* of attempts
C4_Witness ==
    /\ Uploaded(1) /\ Uploaded(2)
    /\ run[1].file_name = run[2].file_name
    /\ run[1].blob_content = run[2].blob_content
    /\ run[1].content_type = run[2].content_type
    /\ Len(run[1].sections) = 2
    /\ run[1].attempt # run[2].attempt

\* C5: runs for two different names write disjoint sets of ids, so neither
\* overwrites a document of the other
C5_DisjointIds ==
    \A r, q \in Runs :
        (/\ r # q
         /\ Uploaded(r) /\ Uploaded(q)
         /\ run[r].file_name # run[q].file_name) =>
            /\ BatchIds(run[r].documents) \cap BatchIds(run[q].documents) = {}
            /\ \A k \in 1..Len(run[r].documents) :
                  index[run[r].documents[k].id] = run[r].documents[k]

\* C15: after two runs for the same name have uploaded, every
\* index entry of that name holds the document of the run that uploaded
\* last
C15_LastWriterOnly ==
    \A r, q \in Runs :
        (/\ Uploaded(r) /\ Uploaded(q)
         /\ run[r].file_name = run[q].file_name
         /\ run[r].order > run[q].order) =>
            \A id \in IdsOfName(run[r].file_name) :
                \E k \in 1..Len(run[r].documents) :
                    index[id] = run[r].documents[k]

\* the ids "<normalized name>-page-0" .. "<normalized name>-page-(k-1)" of
\* a run with k sections
RunIds(r) ==
    {<<filename_to_id(run[r].file_name), j>> :
        j \in 0..(Len(run[r].sections) - 1)}

\* C23: a step never removes an index entry, and an entry is added or
\* changed only by the upload of a run, among the ids
\* "<normalized name>-page-0" .. "<normalized name>-page-(k-1)" of its k
\* sections; so after a re-run with fewer sections the entries j >= k of
\* the earlier, longer version of the document are still in the index
C23_FrameEffect ==
    /\ [][/\ DOMAIN index \subseteq DOMAIN index'
          /\ \A id \in DOMAIN index' :
                (id \notin DOMAIN index \/ index'[id] # index[id]) =>
                    \E r \in Runs :
                        /\ ~Uploaded(r)
                        /\ run'[r].pc = "Uploaded"
                        /\ id \in RunIds(r)]_vars
    /\ [](\A r, q \in Runs :
             (/\ Uploaded(r) /\ Uploaded(q)
              /\ run[r].file_name = run[q].file_name
              /\ run[r].order > run[q].order) =>
                 \A j \in Len(run[r].sections)..(Len(run[q].sections) - 1) :
                    LET id == <<filename_to_id(run[q].file_name), j>>
                    IN  /\ id \in DOMAIN index
                        /\ index[id] = run[q].documents[j + 1])

\* a document uploaded with two sections and then again with one
C23_Witness ==
    \E r, q \in Runs :
        /\ Uploaded(r) /\ Uploaded(q)
        /\ run[r].file_name = run[q].file_name
        /\ run[r].order > run[q].order
        /\ Len(run[r].sections) = 1
        /\ Len(run[q].sections) = 2
        /\ Cardinality(IdsOfName(run[r].file_name)) = 2

(***************************************************************************)
(* main from the event on.                                                 *)
(***************************************************************************)
\* main is triggered with an event and takes one of its early returns or
\* goes on to get_blob_content
MainStart(r) ==
    /\ run[r].pc = "Idle"
    /\ run[r].invocation = "none"
    /\ \E ev \in Events :
          run' = [run EXCEPT ![r] = [@ EXCEPT
                     !.event = ev,
                     !.invocation = IF IgnoredEvent(ev) THEN "returned"
                                    ELSE "running"]]
    /\ UNCHANGED index
    /\ Unused

\* get_blob_content(blob_url) returns or raises ValueError; main returns on
\* ValueError and on empty content, else calls
\* process_file_and_update_index
GetBlobContent(r) ==
    /\ run[r].pc = "Idle"
    /\ run[r].invocation = "running"
    /\ run[r].gets = 0
    /\ LET parts == run[r].event.url
       IN  IF InvalidUrl(parts)
           THEN run' = [run EXCEPT ![r] = [@ EXCEPT !.gets = @ + 1,
                                                    !.invocation = "returned"]]
           ELSE \E content \in TwoContents, ctype \in ContentTypes :
                  IF NoContent(content)
                  THEN run' = [run EXCEPT ![r] = [@ EXCEPT
                                  !.gets = @ + 1,
                                  !.invocation = "returned"]]
                  ELSE run' = [run EXCEPT ![r] = [@ EXCEPT
                                  !.gets = @ + 1,
                                  !.pc = "Received",
                                  !.file_name = BlobName(parts),
                                  !.blob_content = content,
                                  !.content_type =
                                      EffectiveContentType(
                                          run[r].event.contentType, ctype)]]
    /\ UNCHANGED index
    /\ Unused

\* the download fails: get_blob_content re-raises and so does main
GetBlobContentFail(r) ==
    /\ run[r].pc = "Idle"
    /\ run[r].invocation = "running"
    /\ run[r].gets = 0
    /\ ~InvalidUrl(run[r].event.url)
    /\ run' = [run EXCEPT ![r] = [@ EXCEPT !.gets = @ + 1,
                                           !.pc = "Failed",
                                           !.error = "download",
                                           !.invocation = MainOutcome("Failed")]]
    /\ UNCHANGED index
    /\ Unused

MainNext ==
    \E r \in {1} :
        \/ MainStart(r)
        \/ GetBlobContent(r)
        \/ GetBlobContentFail(r)
        \/ Extract(r)
        \/ ExtractFail(r)
        \/ Chunk(r)
        \/ StartEmbedding(r)
        \/ EmbedSend(r)
        \/ EmbedOk(r)
        \/ EmbedFail(r)
        \/ Retry(r)
        \/ Assemble(r)
        \/ UploadOk(r)
        \/ UploadFail(r)

MainSpec == Init /\ [][MainNext]_vars

\* the event is not a BlobCreated event or declares contentLength 0
NotForIndexing(ev) ==
    /\ ev # NoEvent
    /\ \/ ev.event_type # "Microsoft.Storage.BlobCreated"
       \/ ev.contentLength = 0

\* C16: for an event whose type is not Microsoft.Storage.BlobCreated or
\* whose contentLength is 0, main returns without error, without a call of
\* get_blob_content, of the embedding service or of upload_documents, and
\* takes no further step
C16_IgnoredEvents ==
    /\ [](\A r \in Runs :
             NotForIndexing(run[r].event) =>
                 /\ run[r].invocation = "returned"
                 /\ run[r].pc = "Idle"
                 /\ run[r].error = "none"
                 /\ run[r].gets = 0
                 /\ SumSeq(run[r].calls) = 0
                 /\ run[r].uploads = 0
                 /\ index = EmptyIndex)
    /\ [][\A r \in Runs :
             NotForIndexing(run[r].event) => run'[r] = run[r]]_vars

\* a BlobCreated event for a readable blob that declares contentLength 0
C16_Witness ==
    \E r \in Runs :
        /\ run[r].event.event_type = "Microsoft.Storage.BlobCreated"
        /\ run[r].event.contentLength = 0
        /\ ~InvalidUrl(run[r].event.url)
        /\ run[r].invocation = "returned"

(***************************************************************************)
(* Requests to the HTTP endpoints.                                         *)
(***************************************************************************)
OtherVars ==
    <<max_tokens, in_text, out_sections, split_pc, run, index, emb_max_tokens,
      submitted>>

\* a request arrives at one of the endpoints: BlobUpload reads its two
\* headers, the other endpoints their text
HttpReceive(q) ==
    /\ http[q].stage = "none"
    /\ \/ \E file_name \in FileNames, file_type \in FileTypes :
             http' = [http EXCEPT ![q] = [@ EXCEPT !.stage = "received",
                                                  !.endpoint = "BlobUpload",
                                                  !.file_name = file_name,
                                                  !.file_type = file_type]]
       \/ \E endpoint \in Endpoints \ {"BlobUpload"}, text \in RequestTexts :
             http' = [http EXCEPT ![q] = [@ EXCEPT !.stage = "received",
                                                  !.endpoint = endpoint,
                                                  !.text = text]]
    /\ UNCHANGED OtherVars

\* the handler answers: with its success response, or from an except
\* clause when its body raises
HttpRespond(q) ==
    /\ http[q].stage = "received"
    /\ \E e \in Exceptions(http[q].endpoint) \cup {NoException} :
          LET resp == Respond(http[q].endpoint, http[q], e)
          IN  http' = [http EXCEPT ![q] = [@ EXCEPT
                          !.stage = "responded",
                          !.status = resp.status,
                          !.body = resp.body]]
    /\ UNCHANGED OtherVars

HttpNext ==
    \E q \in Requests :
        \/ HttpReceive(q)
        \/ HttpRespond(q)

HttpSpec == Init /\ [][HttpNext]_vars

\* C19: two equal requests to one endpoint that are both answered with
\* status 500 get the same body, whatever the exceptions behind them
C19_SameErrorBody ==
    \A p, q \in Requests :
        (/\ http[p].status = 500 /\ http[q].status = 500
         /\ http[p].endpoint = http[q].endpoint
         /\ http[p].text = http[q].text
         /\ http[p].file_name = http[q].file_name
         /\ http[p].file_type = http[q].file_type) =>
            http[p].body = http[q].body
====
